---- MODULE Spec2Model ----
(***************************************************************************)
(* Fantasy golf scoring and settlement (backend/app/core/fantasy_scoring). *)
(*                                                                         *)
(* Units.  The source computes in floats; the model keeps the same values  *)
(* as integers in a fixed unit:                                            *)
(*   points, bonuses      hundredths      (200.0  -> 20000)                *)
(*   decimal odds         hundredths      (8.0    -> 800)                  *)
(*   odds weight          hundredths      (0.7    -> 70)                   *)
(*   odds multiplier      thousandths     (1.274  -> 1274)                 *)
(*   clamped log factor   millionths      (1.392332 -> 1392332)            *)
(*   base_score           1/100000        (position_score * multiplier)    *)
(* The two logarithms of the source are tabulated from the source's own    *)
(* arithmetic on the inputs the model uses; guards, clamps, blending,      *)
(* rounding and sums are computed.                                         *)
(***************************************************************************)
EXTENDS Integers, Sequences, FiniteSets, TLC

\* Python None / SQL NULL of an Optional[int] or Optional[float] value.
None == -1000000

Min(a, b) == IF a < b THEN a ELSE b
Max(a, b) == IF a > b THEN a ELSE b

\* round(x, k) of a non-negative value n/d, to the nearest unit, ties to even.
RoundHalfEven(n, d) ==
    LET q == n \div d
        r == n % d
    IN  IF 2 * r > d \/ (2 * r = d /\ q % 2 = 1) THEN q + 1 ELSE q

(***************************************************************************)
(* FantasyScoring.__init__                                                 *)
(***************************************************************************)
DefaultWinBonus == 15000
DefaultTop5Bonus == 7500
DefaultTop10Bonus == 4000
DefaultMadeCutBonus == 1500
DefaultOddsWeight == 70
max_odds_multiplier == 3500000
min_odds_multiplier == 800000
DefaultFieldSize == 156

\* Python's  x or d : d when x is None or 0.0
PyOr(x, d) == IF x = None \/ x = 0 THEN d ELSE x

FantasyScoring(league) ==
    [ win_bonus      |-> PyOr(league.win_points, DefaultWinBonus),
      top_5_bonus    |-> PyOr(league.top_5_bonus, DefaultTop5Bonus),
      top_10_bonus   |-> PyOr(league.top_10_bonus, DefaultTop10Bonus),
      made_cut_bonus |-> PyOr(league.made_cut_bonus, DefaultMadeCutBonus),
      odds_weight    |-> PyOr(league.odds_multiplier, DefaultOddsWeight) ]

(***************************************************************************)
(* calculate_position_score                                                *)
(***************************************************************************)
\* round(5.0 + 195.0 * ln(1 + ((fs - p + 1) / fs) * (e - 1)), 2) for fs = 156
PositionPoints156 ==
    << 20000, 19921, 19841, 19762, 19681, 19601, 19520, 19439, 19357, 19276,
       19193, 19111, 19028, 18945, 18861, 18777, 18693, 18608, 18523, 18438,
       18352, 18266, 18179, 18092, 18005, 17917, 17829, 17741, 17652, 17562,
       17473, 17382, 17292, 17201, 17109, 17018, 16925, 16833, 16739, 16646,
       16552, 16457, 16362, 16267, 16171, 16074, 15978, 15880, 15782, 15684,
       15585, 15486, 15386, 15286, 15185, 15083, 14981, 14879, 14776, 14672,
       14568, 14464, 14358, 14252, 14146, 14039, 13932, 13823, 13715, 13605,
       13495, 13385, 13273, 13161, 13049, 12936, 12822, 12707, 12592, 12476,
       12360, 12243, 12125, 12006, 11886, 11766, 11645, 11524, 11401, 11278,
       11154, 11029, 10904, 10777, 10650, 10522, 10393, 10263, 10133, 10001,
       9869, 9736, 9601, 9466, 9330, 9193, 9055, 8916, 8776, 8635,
       8493, 8350, 8206, 8061, 7914, 7767, 7618, 7469, 7318, 7166,
       7013, 6858, 6703, 6546, 6388, 6228, 6067, 5905, 5742, 5577,
       5411, 5243, 5074, 4903, 4731, 4557, 4382, 4205, 4027, 3847,
       3665, 3482, 3297, 3110, 2921, 2730, 2538, 2343, 2147, 1948,
       1748, 1545, 1341, 1134, 925, 714 >>

\* the same for fs = 4
PositionPoints4 == << 20000, 16646, 12592, 7469 >>

\* a faulty variant of ScaledScore: the ratio is taken of the position, not of the
\* players behind it
scaled_score_reversed(position, field_size) ==
    IF field_size = 156 THEN PositionPoints156[field_size - position + 1]
    ELSE PositionPoints4[field_size - position + 1]

\* min_position_points + (max_position_points - min_position_points) * log_score,
\* rounded to 2 decimals, for a position already inside 1..field_size
ScaledScore(position, field_size) ==
    IF field_size = 156 THEN PositionPoints156[position]
    ELSE PositionPoints4[position]

\* a faulty variant of calculate_position_score: a position of 0 or below counts
\* as position 1
position_score_clamped_low(position, field_size) ==
    IF position = None THEN 0
    ELSE ScaledScore(Max(1, Min(position, field_size)), field_size)

\* position_ratio = (field_size - position + 1) / field_size raises
\* ZeroDivisionError when it is reached with field_size 0
PositionRatioRaises(position, field_size) ==
    position # None /\ position > 0 /\ field_size = 0

calculate_position_score(position, field_size) ==
    IF position = None \/ position <= 0 THEN 0
    ELSE ScaledScore(Min(position, field_size), field_size)

(***************************************************************************)
(* calculate_odds_multiplier                                               *)
(***************************************************************************)
\* 1.0 + ln(odds / 3.0) * 0.4 in millionths, for odds > 1.0
LogMultiplier(odds) ==
    CASE odds = 150    -> 722741
      [] odds = 200    -> 837814
      [] odds = 300    -> 1000000
      [] odds = 800    -> 1392332
      [] odds = 2500   -> 1848105
      [] odds = 8000   -> 2313366
      [] odds = 200000 -> 3600916

\* a faulty variant of calculate_odds_multiplier: the logarithm is not clamped
odds_multiplier_unclamped(self, pre_tournament_odds) ==
    IF pre_tournament_odds = None \/ pre_tournament_odds <= 100 THEN 1000
    ELSE RoundHalfEven(100000000 + (LogMultiplier(pre_tournament_odds) - 1000000)
                                       * self.odds_weight, 100000)

calculate_odds_multiplier(self, pre_tournament_odds) ==
    IF pre_tournament_odds = None \/ pre_tournament_odds <= 100 THEN 1000
    ELSE LET log_multiplier == LogMultiplier(pre_tournament_odds)
             odds_multiplier == Max(min_odds_multiplier,
                                    Min(max_odds_multiplier, log_multiplier))
             \* 1.0 + (odds_multiplier - 1.0) * odds_weight, in 1/100000000
             final_multiplier ==
                 100000000 + (odds_multiplier - 1000000) * self.odds_weight
         IN  RoundHalfEven(final_multiplier, 100000)

(***************************************************************************)
(* calculate_achievement_bonuses                                           *)
(***************************************************************************)
calculate_achievement_bonuses(self, position, made_cut) ==
    IF position = None THEN 0
    ELSE (IF position = 1 THEN self.win_bonus ELSE 0)
       + (IF position <= 5 THEN self.top_5_bonus ELSE 0)
       + (IF position <= 10 THEN self.top_10_bonus ELSE 0)
       + (IF made_cut THEN self.made_cut_bonus ELSE 0)

(***************************************************************************)
(* calculate_player_score                                                  *)
(***************************************************************************)
MissedCutBreakdown ==
    [ position_score |-> 0, odds_multiplier |-> 1000, achievement_bonus |-> 0,
      base_score |-> 0, total_score |-> 0 ]

\* a faulty variant of calculate_player_score: the missed-cut early return is gone
player_score_no_cut_check(self, position, made_cut, pre_tournament_odds, field_size) ==
    LET position_score == calculate_position_score(position, field_size)
        odds_multiplier == calculate_odds_multiplier(self, pre_tournament_odds)
        achievement_bonus == calculate_achievement_bonuses(self, position, made_cut)
        base_score == position_score * odds_multiplier
    IN  [ position_score |-> position_score,
          odds_multiplier |-> odds_multiplier,
          achievement_bonus |-> achievement_bonus,
          base_score |-> base_score,
          total_score |-> RoundHalfEven(base_score + achievement_bonus * 1000, 1000) ]

\* a faulty variant of calculate_player_score: the odds multiply the bonus too
player_score_bonus_times_odds(self, position, made_cut, pre_tournament_odds, field_size) ==
    IF ~made_cut THEN MissedCutBreakdown
    ELSE LET position_score == calculate_position_score(position, field_size)
             odds_multiplier == calculate_odds_multiplier(self, pre_tournament_odds)
             achievement_bonus ==
                 RoundHalfEven(calculate_achievement_bonuses(self, position, made_cut)
                                 * odds_multiplier, 1000)
             base_score == position_score * odds_multiplier
         IN  [ position_score |-> position_score,
               odds_multiplier |-> odds_multiplier,
               achievement_bonus |-> achievement_bonus,
               base_score |-> base_score,
               total_score |-> RoundHalfEven(base_score + achievement_bonus * 1000, 1000) ]

\* calculate_player_score raises: the position score is reached (the cut was
\* made) and its division raises
PlayerScoreRaises(position, made_cut, field_size) ==
    made_cut /\ PositionRatioRaises(position, field_size)

calculate_player_score(self, position, made_cut, pre_tournament_odds, field_size) ==
    IF ~made_cut THEN MissedCutBreakdown
    ELSE LET position_score == calculate_position_score(position, field_size)
             odds_multiplier == calculate_odds_multiplier(self, pre_tournament_odds)
             achievement_bonus == calculate_achievement_bonuses(self, position, made_cut)
             base_score == position_score * odds_multiplier
             total_score == base_score + achievement_bonus * 1000
         IN  [ position_score |-> position_score,
               odds_multiplier |-> odds_multiplier,
               achievement_bonus |-> achievement_bonus,
               base_score |-> base_score,
               total_score |-> RoundHalfEven(total_score, 1000) ]

(***************************************************************************)
(* Tables of the database (backend/app/database/models.py).  Each table is *)
(* a function from the primary key to the row.  A lineup row keeps the     *)
(* three slots player_1_*, player_2_*, player_3_* as 3-tuples.             *)
(***************************************************************************)
VARIABLES
    leagues,        \* fantasy_leagues:     id -> scoring settings
    teams,          \* fantasy_teams:       id -> [user_id, league_id, total_points]
    memberships,    \* league_memberships:  id -> [league_id, user_id, total_points, position]
    lineups,        \* weekly_lineups:      id -> lineup row
    results,        \* tournament_results:  <<tournament_id, player_id>> -> result
    tournaments,    \* tournaments:         id -> [started]: start_date has passed
    reqs,           \* the requests of set_weekly_lineup in flight
    run,            \* the settlement runs: position in update_weekly_lineup_scores, locals, session
    hist,           \* history: what the runs did, for the properties
    budget,         \* how many runs were started and results ingested
    inp,            \* arguments of a direct call of the scorer
    out             \* what that call returned

vars == << leagues, teams, memberships, lineups, results, tournaments, reqs,
          run, hist, budget, inp, out >>

\* how many settlement runs are started, and how many results are ingested
MaxSettlements == 2
MaxIngest == 1

Runs == {1, 2}
Tournaments == {1, 2}
Players == {1, 2, 3, 4}

\* a missing tournament_results row
NoResult == [present |-> FALSE, position |-> None, made_cut |-> FALSE]

Result(position, made_cut) ==
    [present |-> TRUE, position |-> position, made_cut |-> made_cut]

\* what result ingestion stores for a player: a win, a top 10, a missed cut
ResultValues == { Result(1, TRUE), Result(8, TRUE), Result(None, FALSE) }

\* the results the ingestion has stored when the model starts: tournament 1 is
\* played (player 4 has no row), tournament 2 has a result for player 1 only
InitResults ==
    [k \in Tournaments \X Players |->
        CASE k = << 1, 1 >> -> Result(1, TRUE)
          [] k = << 1, 2 >> -> Result(45, TRUE)
          [] k = << 1, 3 >> -> Result(None, FALSE)
          [] k = << 2, 1 >> -> Result(8, TRUE)
          [] OTHER -> NoResult]

\* the rows the ingestion stores or corrects while the model runs
IngestRows == { << 1, 1 >>, << 1, 3 >>, << 1, 4 >>, << 2, 4 >> }

\* leagues 1 and 3 as FantasyLeagueCreate's defaults make them; league 2
\* customised
InitLeagues ==
    (1 :> [win_points |-> 10000, top_5_bonus |-> 5000, top_10_bonus |-> 2500,
           made_cut_bonus |-> 1000, odds_multiplier |-> 100, max_members |-> 4])
    @@ (2 :> [win_points |-> 15000, top_5_bonus |-> 7500, top_10_bonus |-> 4000,
              made_cut_bonus |-> 1500, odds_multiplier |-> 50, max_members |-> None])
    @@ (3 :> [win_points |-> 10000, top_5_bonus |-> 5000, top_10_bonus |-> 2500,
              made_cut_bonus |-> 1000, odds_multiplier |-> 100, max_members |-> 2])

\* FantasyTeam rows as register_fantasy_team creates them (total_points 0.0)
InitTeams ==
    (1 :> [user_id |-> 1, league_id |-> 1, total_points |-> 0])
    @@ (2 :> [user_id |-> 2, league_id |-> 1, total_points |-> 0])
    @@ (3 :> [user_id |-> 1, league_id |-> 2, total_points |-> 0])
    @@ (4 :> [user_id |-> 2, league_id |-> 3, total_points |-> 0])

\* LeagueMembership rows as join_fantasy_league creates them; user 3
\* joined league 1 without registering a team there; league 3 has a team
\* and a member but no lineup
InitMemberships ==
    (1 :> [league_id |-> 1, user_id |-> 1, total_points |-> 0, position |-> None])
    @@ (2 :> [league_id |-> 1, user_id |-> 2, total_points |-> 0, position |-> None])
    @@ (3 :> [league_id |-> 1, user_id |-> 3, total_points |-> 0, position |-> None])
    @@ (4 :> [league_id |-> 2, user_id |-> 1, total_points |-> 0, position |-> None])
    @@ (5 :> [league_id |-> 3, user_id |-> 2, total_points |-> 0, position |-> None])

NewLineup(team_id, tournament_id, player_ids, player_odds, is_locked) ==
    [ team_id |-> team_id, tournament_id |-> tournament_id,
      player_ids |-> player_ids, player_odds |-> player_odds,
      player_points |-> << 0, 0, 0 >>, total_points |-> 0,
      is_locked |-> is_locked ]

\* WeeklyLineup rows as set_weekly_lineup creates them
InitLineups ==
    (1 :> NewLineup(1, 1, << 1, 2, 3 >>, << 800, 2500, 300 >>, TRUE))
    @@ (2 :> NewLineup(2, 1, << 1, 2, 4 >>, << 800, 2500, 100 >>, FALSE))
    @@ (3 :> NewLineup(3, 1, << 2, 3, 4 >>, << 2500, 200, 8000 >>, TRUE))
    @@ (4 :> NewLineup(1, 2, << 1, 3, 4 >>, << 300, 800, 2500 >>, TRUE))
    @@ (5 :> NewLineup(3, 2, << 2, 3, 4 >>, << 800, 800, 800 >>, TRUE))

(***************************************************************************)
(* calculate_lineup_score                                                  *)
(***************************************************************************)
\* a faulty variant of SlotScore: every slot is scored with the odds of slot 1
slot_score_first_odds(self, lineup, res, i) ==
    LET result == res[<< lineup.tournament_id, lineup.player_ids[i] >>]
    IN  IF result.present
        THEN calculate_player_score(self, result.position, result.made_cut,
                                    lineup.player_odds[1], DefaultFieldSize).total_score
        ELSE 0

\* the points of slot i: the loop body of calculate_lineup_score
SlotScore(self, lineup, res, i) ==
    LET player_id == lineup.player_ids[i]
        player_odds == lineup.player_odds[i]
        result == res[<< lineup.tournament_id, player_id >>]
    IN  IF result.present
        THEN calculate_player_score(self, result.position, result.made_cut,
                                    player_odds, DefaultFieldSize).total_score
        ELSE 0

\* a faulty variant of calculate_lineup_score: the new points are added to the old
lineup_score_accumulating(self, lineup, res) ==
    LET p1 == lineup.player_points[1] + SlotScore(self, lineup, res, 1)
        p2 == lineup.player_points[2] + SlotScore(self, lineup, res, 2)
        p3 == lineup.player_points[3] + SlotScore(self, lineup, res, 3)
    IN  [lineup EXCEPT !.player_points = << p1, p2, p3 >>,
                       !.total_points = lineup.total_points + p1 + p2 + p3]

\* a faulty variant of calculate_lineup_score: a missing result is scored as a made
\* cut without a position
lineup_score_missing_as_cut(self, lineup, res) ==
    LET S(i) == IF res[<< lineup.tournament_id, lineup.player_ids[i] >>].present
                THEN SlotScore(self, lineup, res, i)
                ELSE calculate_player_score(self, 45, TRUE, lineup.player_odds[i],
                                            DefaultFieldSize).total_score
    IN  [lineup EXCEPT !.player_points = << S(1), S(2), S(3) >>,
                       !.total_points = S(1) + S(2) + S(3)]

\* the lineup row as calculate_lineup_score leaves it
calculate_lineup_score(self, lineup, res) ==
    LET p1 == SlotScore(self, lineup, res, 1)
        p2 == SlotScore(self, lineup, res, 2)
        p3 == SlotScore(self, lineup, res, 3)
        total_points == 0 + p1 + p2 + p3
    IN  [lineup EXCEPT !.player_points = << p1, p2, p3 >>,
                       !.total_points = total_points]

(***************************************************************************)
(* The database session of a run.  A run's writes are pending in its own   *)
(* session until it commits; its queries see the committed rows with its   *)
(* own pending writes on top (the session flushes before each query), and  *)
(* nobody else's.  A row with a pending write of one session cannot be     *)
(* written by another before the first commits or rolls back.              *)
(***************************************************************************)
EmptySession == [lineups |-> << >>, teams |-> << >>, memberships |-> << >>]

Overlay(table, pending) ==
    [id \in DOMAIN table |-> IF id \in DOMAIN pending THEN pending[id] ELSE table[id]]

Put(pending, id, row) ==
    [k \in DOMAIN pending \cup {id} |-> IF k = id THEN row ELSE pending[k]]

\* what run r's queries read
ViewLineups(r) == Overlay(lineups, run[r].sess.lineups)
ViewTeams(r) == Overlay(teams, run[r].sess.teams)
ViewMemberships(r) == Overlay(memberships, run[r].sess.memberships)

\* no other session holds a pending write of the row
LineupFree(r, id) == \A o \in Runs \ {r} : id \notin DOMAIN run[o].sess.lineups
TeamFree(r, id) == \A o \in Runs \ {r} : id \notin DOMAIN run[o].sess.teams
MembershipFree(r, id) == \A o \in Runs \ {r} : id \notin DOMAIN run[o].sess.memberships

RECURSIVE SortedIds(_)
\* the ids of S in ascending order
SortedIds(S) ==
    IF S = {} THEN << >>
    ELSE LET m == CHOOSE x \in S : \A y \in S : x <= y
         IN  << m >> \o SortedIds(S \ {m})

RECURSIVE SumTotalPoints(_, _)
\* func.sum(WeeklyLineup.total_points) over the rows S of table
SumTotalPoints(table, S) ==
    IF S = {} THEN 0
    ELSE LET x == CHOOSE y \in S : TRUE
         IN  table[x].total_points + SumTotalPoints(table, S \ {x})

\* history: no completed run to compare with; no aborted run to make up for
NoPrev == [t |-> 0, snap |-> << >>]
NoAbort == [on |-> FALSE, base |-> << >>]

\* history: at_start[t] is the weekly_lineups table as it was when tournament
\* t started
InitHist ==
    [ base |-> [r \in Runs |-> << >>],
      prev |-> NoPrev,
      aborted |-> [u \in Tournaments |-> NoAbort],
      at_start |-> [u \in Tournaments |-> << >>] ]

InitBudget == [started |-> 0, ingested |-> 0, submitted |-> 0, league_calls |-> 0]

\* the requests of set_weekly_lineup that can be in flight at once
Requests == {1, 2}

\* no request in the slot; status is the response of the last one (0: none yet)
IdleRequest == [pc |-> "idle", status |-> 0, detail |-> ""]

\* the response of a request that has ended
Response(status, detail) == [pc |-> "idle", status |-> status, detail |-> detail]

IdleRun ==
    [ pc |-> "idle", tournament_id |-> 0, lineups |-> << >>, idx |-> 1,
      updated_lineups |-> << >>, teams_updated |-> {}, leagues_updated |-> {},
      season_total |-> 0, memberships |-> << >>, sess |-> EmptySession ]

\* a faulty variant of NextLoop: the standings loop runs before the totals loop
next_loop_standings_first(pc) ==
    CASE pc = "score" -> "standings"
      [] pc = "standings" -> "totals"
      [] pc = "totals" -> "commit"
      [] OTHER -> pc

\* the loop of the run that follows the loop pc
NextLoop(pc) ==
    CASE pc = "score" -> "totals"
      [] pc = "totals" -> "standings"
      [] pc = "standings" -> "commit"
      [] OTHER -> pc

\* a for loop over the lineups that has run out goes on to the next loop
LoopExit(rr) ==
    IF rr.pc \in {"score", "totals", "standings"} /\ rr.idx > Len(rr.lineups)
    THEN [rr EXCEPT !.pc = NextLoop(rr.pc), !.idx = 1]
    ELSE rr

Advance(rr) == LoopExit(LoopExit(LoopExit(rr)))

\* the lineup the running loop is at
CurrentLineup(r) == ViewLineups(r)[run[r].lineups[run[r].idx]]
CurrentTeamId(r) == CurrentLineup(r).team_id

InLoop(r, pc) == run[r].pc = pc /\ run[r].idx <= Len(run[r].lineups)

Unchanged_db ==
    UNCHANGED << leagues, teams, memberships, lineups, results, tournaments, reqs >>
Unchanged_call == UNCHANGED << inp, out >>

(***************************************************************************)
(* update_weekly_lineup_scores                                             *)
(***************************************************************************)
\* a faulty variant of TournamentLineups: locked lineups are left out
tournament_lineups_unlocked(table, t) ==
    {id \in DOMAIN table : table[id].tournament_id = t /\ ~table[id].is_locked}

\* .filter(WeeklyLineup.tournament_id == tournament_id): the rows of the query
TournamentLineups(table, t) ==
    {id \in DOMAIN table : table[id].tournament_id = t}

\* the query of the tournament's lineups
StartSettlement(r, t) ==
    /\ run[r].pc = "idle"
    /\ budget.started < MaxSettlements
    /\ run' = [run EXCEPT ![r] = Advance(
                  [IdleRun EXCEPT
                     !.pc = "score",
                     !.tournament_id = t,
                     !.lineups = SortedIds(TournamentLineups(lineups, t))])]
    /\ budget' = [budget EXCEPT !.started = @ + 1]
    /\ hist' = [hist EXCEPT
                  !.base[r] = [lineups |-> lineups, teams |-> teams,
                               memberships |-> memberships],
                  !.prev = IF @.t = t THEN @ ELSE NoPrev,
                  !.aborted = [u \in Tournaments |-> IF u = t THEN @[u] ELSE NoAbort]]
    /\ Unchanged_db /\ Unchanged_call

\* a faulty variant of SummaryEntry: the total the lineup had before it was scored
summary_entry_stale(id, lineup, team, scored) ==
    [lineup_id |-> id, team_id |-> lineup.team_id, user_id |-> team.user_id,
     total_points |-> lineup.total_points]

\* the dictionary appended to updated_lineups
SummaryEntry(id, lineup, team, scored) ==
    [lineup_id |-> id, team_id |-> lineup.team_id, user_id |-> team.user_id,
     total_points |-> scored.total_points]

\* the first loop: one lineup is scored with its team's league's settings
\* (the team and the league exist: team_id and league_id are foreign keys)
ScoreLineup(r) ==
    /\ InLoop(r, "score")
    /\ LET id == run[r].lineups[run[r].idx]
           lineup == CurrentLineup(r)
           team == ViewTeams(r)[lineup.team_id]
           league == leagues[team.league_id]
           scorer == FantasyScoring(league)
           scored == calculate_lineup_score(scorer, lineup, results)
       IN  /\ LineupFree(r, id)
           /\ run' = [run EXCEPT ![r] = Advance(
                        [@ EXCEPT
                           !.sess.lineups = Put(@, id, scored),
                           !.updated_lineups = Append(@,
                               SummaryEntry(id, lineup, team, scored)),
                           !.idx = @ + 1])]
    /\ UNCHANGED << hist, budget >>
    /\ Unchanged_db /\ Unchanged_call

(***************************************************************************)
(* update_team_season_total, called from the second loop                   *)
(***************************************************************************)
\* a faulty variant of SeasonTotal: only the settled tournament's lineups are summed
season_total_this_tournament(r, team_id) ==
    SumTotalPoints(ViewLineups(r),
                   {id \in DOMAIN lineups :
                      /\ ViewLineups(r)[id].team_id = team_id
                      /\ ViewLineups(r)[id].tournament_id = run[r].tournament_id})

\* a faulty variant of SeasonTotal: the tournament's lineup is added to the total the
\* team already has
season_total_incremental(r, team_id) ==
    ViewTeams(r)[team_id].total_points
    + SumTotalPoints(ViewLineups(r),
                     {id \in DOMAIN lineups :
                        /\ ViewLineups(r)[id].team_id = team_id
                        /\ ViewLineups(r)[id].tournament_id = run[r].tournament_id})

\* the sum query: all weekly lineups of the team
SeasonTotal(r, team_id) ==
    SumTotalPoints(ViewLineups(r),
                   {id \in DOMAIN lineups : ViewLineups(r)[id].team_id = team_id})

\* the second loop at one lineup: a team already in teams_updated is passed
\* over, otherwise update_team_season_total runs its sum query
ReadSeasonTotal(r) ==
    /\ InLoop(r, "totals")
    /\ run' = [run EXCEPT ![r] =
                  IF CurrentTeamId(r) \in run[r].teams_updated
                  THEN Advance([@ EXCEPT !.idx = @ + 1])
                  ELSE [@ EXCEPT !.season_total = SeasonTotal(r, CurrentTeamId(r)),
                                 !.pc = "totals_write"]]
    /\ UNCHANGED << hist, budget >>
    /\ Unchanged_db /\ Unchanged_call

\* a faulty variant of TeamMemberships: the membership is looked up by user only
team_memberships_by_user(r, team) ==
    {m \in DOMAIN memberships : ViewMemberships(r)[m].user_id = team.user_id}

\* the membership update_team_season_total mirrors the total onto
TeamMemberships(r, team) ==
    {m \in DOMAIN memberships :
        /\ ViewMemberships(r)[m].league_id = team.league_id
        /\ ViewMemberships(r)[m].user_id = team.user_id}

\* the team row and its membership row after update_team_season_total
WithSeasonTotal(r, team_id, season_total) ==
    LET team == ViewTeams(r)[team_id]
        ms == TeamMemberships(r, team)
    IN  [ teams |-> Put(run[r].sess.teams, team_id,
                        [team EXCEPT !.total_points = season_total]),
          memberships |->
              [m \in DOMAIN run[r].sess.memberships \cup ms |->
                  IF m \in ms
                  THEN [ViewMemberships(r)[m] EXCEPT !.total_points = season_total]
                  ELSE run[r].sess.memberships[m]] ]

\* a faulty variant of WriteSeasonTotal: update_team_season_total commits its
\* writes
write_season_total_committing(r) ==
    /\ run[r].pc = "totals_write"
    /\ LET team_id == CurrentTeamId(r)
           w == WithSeasonTotal(r, team_id, run[r].season_total)
       IN  /\ TeamFree(r, team_id)
           /\ \A m \in TeamMemberships(r, ViewTeams(r)[team_id]) : MembershipFree(r, m)
           /\ lineups' = Overlay(lineups, run[r].sess.lineups)
           /\ teams' = Overlay(teams, w.teams)
           /\ memberships' = Overlay(memberships, w.memberships)
           /\ run' = [run EXCEPT ![r] = Advance(
                        [@ EXCEPT
                           !.pc = "totals",
                           !.sess = EmptySession,
                           !.teams_updated = @ \cup {team_id},
                           !.idx = @ + 1])]
    /\ UNCHANGED << hist, budget, leagues, results, tournaments, reqs >>
    /\ Unchanged_call

\* the writes of update_team_season_total, and teams_updated.add
WriteSeasonTotal(r) ==
    /\ run[r].pc = "totals_write"
    /\ LET team_id == CurrentTeamId(r)
           w == WithSeasonTotal(r, team_id, run[r].season_total)
       IN  /\ TeamFree(r, team_id)
           /\ \A m \in TeamMemberships(r, ViewTeams(r)[team_id]) : MembershipFree(r, m)
           /\ run' = [run EXCEPT ![r] = Advance(
                        [@ EXCEPT
                           !.pc = "totals",
                           !.sess.teams = w.teams,
                           !.sess.memberships = w.memberships,
                           !.teams_updated = @ \cup {team_id},
                           !.idx = @ + 1])]
    /\ UNCHANGED << hist, budget >>
    /\ Unchanged_db /\ Unchanged_call

(***************************************************************************)
(* update_league_standings, called from the third loop                     *)
(***************************************************************************)
Snapshot == [lineups |-> lineups, teams |-> teams, memberships |-> memberships]

\* db.commit(): the session's pending writes become the committed rows
Commit(sess) ==
    /\ lineups' = Overlay(lineups, sess.lineups)
    /\ teams' = Overlay(teams, sess.teams)
    /\ memberships' = Overlay(memberships, sess.memberships)
    /\ UNCHANGED << leagues, results, tournaments, reqs >>

\* the sequences that hold each element of S once
RowOrders(S) ==
    {f \in [1..Cardinality(S) -> S] : \A i, j \in DOMAIN f : f[i] = f[j] => i = j}

\* a faulty variant of OrderByTotalPointsDesc: ascending order
order_by_total_points_asc(table, S) ==
    {f \in RowOrders(S) :
        \A i, j \in DOMAIN f : i < j => table[f[i]].total_points <= table[f[j]].total_points}

\* .order_by(LeagueMembership.total_points.desc()): the orders the database
\* may return the rows S in; rows of equal total_points come in any order
OrderByTotalPointsDesc(table, S) ==
    {f \in RowOrders(S) :
        \A i, j \in DOMAIN f : i < j => table[f[i]].total_points >= table[f[j]].total_points}

LeagueMemberships(table, league_id) ==
    {m \in DOMAIN table : table[m].league_id = league_id}

\* the third loop at one lineup: a league already in leagues_updated is
\* passed over, otherwise update_league_standings runs its ordered query
QueryStandings(r) ==
    /\ InLoop(r, "standings")
    /\ LET league_id == ViewTeams(r)[CurrentTeamId(r)].league_id
       IN  IF league_id \in run[r].leagues_updated
           THEN run' = [run EXCEPT ![r] = Advance([@ EXCEPT !.idx = @ + 1])]
           ELSE \E order \in OrderByTotalPointsDesc(ViewMemberships(r),
                                LeagueMemberships(ViewMemberships(r), league_id)) :
                   run' = [run EXCEPT ![r].memberships = order,
                                      ![r].pc = "rank_write"]
    /\ UNCHANGED << hist, budget >>
    /\ Unchanged_db /\ Unchanged_call

\* a faulty variant of WithPositions: the ranking also resets the season total of
\* the last row
with_positions_resetting(r, order) ==
    [m \in DOMAIN run[r].sess.memberships \cup {order[i] : i \in DOMAIN order} |->
        IF \E i \in DOMAIN order : order[i] = m
        THEN [ViewMemberships(r)[m] EXCEPT
                 !.position = CHOOSE i \in DOMAIN order : order[i] = m,
                 !.total_points = IF order[Len(order)] = m THEN 0 ELSE @]
        ELSE run[r].sess.memberships[m]]

\* membership.position = position for the enumerated rows
WithPositions(r, order) ==
    [m \in DOMAIN run[r].sess.memberships \cup {order[i] : i \in DOMAIN order} |->
        IF \E i \in DOMAIN order : order[i] = m
        THEN [ViewMemberships(r)[m] EXCEPT
                 !.position = CHOOSE i \in DOMAIN order : order[i] = m]
        ELSE run[r].sess.memberships[m]]

\* the position loop and the commit of update_league_standings, and
\* leagues_updated.add
CommitStandings(r) ==
    /\ run[r].pc = "rank_write"
    /\ \A i \in DOMAIN run[r].memberships : MembershipFree(r, run[r].memberships[i])
    /\ LET league_id == ViewTeams(r)[CurrentTeamId(r)].league_id
           sess == [run[r].sess EXCEPT
                       !.memberships = WithPositions(r, run[r].memberships)]
       IN  /\ Commit(sess)
           /\ run' = [run EXCEPT ![r] = Advance(
                        [@ EXCEPT
                           !.pc = "standings",
                           !.sess = EmptySession,
                           !.memberships = << >>,
                           !.leagues_updated = @ \cup {league_id},
                           !.idx = @ + 1])]
    /\ UNCHANGED << hist, budget >>
    /\ Unchanged_call

\* the last db.commit() of update_weekly_lineup_scores
FinalCommit(r) ==
    /\ run[r].pc = "commit"
    /\ Commit(run[r].sess)
    /\ run' = [run EXCEPT ![r].pc = "done", ![r].sess = EmptySession]
    /\ UNCHANGED << hist, budget >>
    /\ Unchanged_call

\* update_weekly_lineup_scores returns updated_lineups; the session ends
Return(r) ==
    /\ run[r].pc = "done"
    /\ run' = [run EXCEPT ![r] = IdleRun]
    /\ hist' = [hist EXCEPT
                  !.base[r] = << >>,
                  !.prev = [t |-> run[r].tournament_id, snap |-> Snapshot],
                  !.aborted[run[r].tournament_id] = NoAbort]
    /\ UNCHANGED << budget >>
    /\ Unchanged_db /\ Unchanged_call

\* the run fails or its caller gives up at some point before it returns:
\* the session's pending writes are rolled back, what it committed stays
Abort(r) ==
    /\ run[r].pc \in {"score", "totals", "totals_write", "standings",
                      "rank_write", "commit"}
    /\ run' = [run EXCEPT ![r] = IdleRun]
    /\ hist' = [hist EXCEPT
                  !.base[r] = << >>,
                  !.prev = NoPrev,
                  !.aborted[run[r].tournament_id] =
                      IF @.on THEN @ ELSE [on |-> TRUE, base |-> hist.base[r]]]
    /\ UNCHANGED << budget >>
    /\ Unchanged_db /\ Unchanged_call

\* result ingestion stores or replaces the result of player p in tournament
\* t, between settlement runs
IngestResult(t, p, v) ==
    /\ \A r \in Runs : run[r].pc = "idle"
    /\ budget.ingested < MaxIngest
    /\ << t, p >> \in IngestRows
    /\ results[<< t, p >>] # v
    /\ results' = [results EXCEPT ![<< t, p >>] = v]
    /\ budget' = [budget EXCEPT !.ingested = @ + 1]
    /\ hist' = [hist EXCEPT
                  !.prev = NoPrev,
                  !.aborted = [u \in Tournaments |-> NoAbort]]
    /\ UNCHANGED << leagues, teams, memberships, lineups, tournaments, reqs, run >>
    /\ Unchanged_call

(***************************************************************************)
(* The settlement pipeline, one run at a time                              *)
(***************************************************************************)
NoCall == [fn |-> "none"]

InitDb ==
    /\ leagues = InitLeagues
    /\ teams = InitTeams
    /\ memberships = InitMemberships
    /\ lineups = InitLineups
    /\ results = InitResults
    /\ tournaments = [t \in Tournaments |-> [started |-> TRUE]]
    /\ reqs = [q \in Requests |-> IdleRequest]
    /\ run = [r \in Runs |-> IdleRun]
    /\ hist = InitHist
    /\ budget = InitBudget

Init ==
    /\ InitDb
    /\ inp = NoCall
    /\ out = NoCall

RunStep(r) ==
    \/ ScoreLineup(r)
    \/ ReadSeasonTotal(r)
    \/ WriteSeasonTotal(r)
    \/ QueryStandings(r)
    \/ CommitStandings(r)
    \/ FinalCommit(r)
    \/ Return(r)

Next ==
    \/ \E t \in Tournaments : StartSettlement(1, t)
    \/ RunStep(1)
    \/ Abort(1)
    \/ \E t \in Tournaments, p \in Players, v \in ResultValues : IngestResult(t, p, v)

Spec == Init /\ [][Next]_vars

(***************************************************************************)
(* Properties of the settlement pipeline                                   *)
(***************************************************************************)
TeamLineups(table, team_id) == {id \in DOMAIN table : table[id].team_id = team_id}

\* the teams that have a lineup for tournament t
TouchedTeams(t) == {lineups[id].team_id : id \in {l \in DOMAIN lineups : lineups[l].tournament_id = t}}

\* the lineups run r has scored so far
ScoredBy(r) ==
    IF run[r].pc = "idle" THEN {}
    ELSE IF run[r].pc = "score"
         THEN {run[r].lineups[i] : i \in 1..(run[r].idx - 1)}
         ELSE {run[r].lineups[i] : i \in DOMAIN run[r].lineups}

\* C1: when update_weekly_lineup_scores has returned for tournament t, every
\* team with a lineup for t has a season total equal to the sum of
\* total_points over all of its lineups, of every tournament.
C1_SeasonTotalIsSumOfAllLineups ==
    \A r \in Runs : run[r].pc = "done" =>
        \A team_id \in TouchedTeams(run[r].tournament_id) :
            teams[team_id].total_points =
                SumTotalPoints(lineups, TeamLineups(lineups, team_id))

\* C1 witness: a run for tournament 2 has returned, and team 1 has points
\* from its lineup of tournament 1 and from its lineup of tournament 2.
C1_Witness ==
    /\ run[1].pc = "done"
    /\ run[1].tournament_id = 2
    /\ lineups[1].total_points > 0
    /\ lineups[4].total_points > 0
    /\ teams[1].total_points = lineups[1].total_points + lineups[4].total_points

\* C3: a second settlement of the same tournament, right after the first and
\* with no change to results, lineups or league settings, leaves every lineup's
\* points, every team total, every membership total and every position as the
\* first left them.
C3_ResettleChangesNothing ==
    \A r \in Runs :
        (run[r].pc = "done" /\ hist.prev.t = run[r].tournament_id) =>
            Snapshot = hist.prev.snap

\* the positions of league league_id are 1..N, and a higher total has the
\* smaller position
Ranked(league_id) ==
    LET ms == LeagueMemberships(memberships, league_id)
    IN  /\ \A m \in ms : memberships[m].position \in 1..Cardinality(ms)
        /\ \A a, b \in ms : a # b => memberships[a].position # memberships[b].position
        /\ \A a, b \in ms :
              memberships[a].total_points > memberships[b].total_points
                  => memberships[a].position < memberships[b].position

\* C4: after update_league_standings for a league with N memberships, every
\* membership has a position, the positions are pairwise distinct and are
\* exactly 1..N, and a strictly higher season total has the smaller position.
C4_StandingsAreATotalOrder ==
    \A r \in Runs : \A league_id \in run[r].leagues_updated : Ranked(league_id)

\* C4 witness: league 1 (three memberships) has been ranked with three
\* different totals that are not in the order of the membership ids.
C4_Witness ==
    /\ 1 \in run[1].leagues_updated
    /\ memberships[2].total_points > memberships[1].total_points
    /\ memberships[1].total_points > memberships[3].total_points
    /\ memberships[2].position = 1 /\ memberships[1].position = 2
    /\ memberships[3].position = 3

\* C5: two memberships of a ranked league with equal season totals have
\* distinct positions, and the one with the smaller membership id has the
\* smaller position.
C5_TiesBrokenByMembershipId ==
    \A r \in Runs : \A league_id \in run[r].leagues_updated :
        \A a, b \in LeagueMemberships(memberships, league_id) :
            (a < b /\ memberships[a].total_points = memberships[b].total_points)
                => memberships[a].position < memberships[b].position

\* C6: when a settlement run has returned, the membership of every touched
\* team's (league, user) exists and has the team's season total.
C6_MembershipMirrorsTeamTotal ==
    \A r \in Runs : run[r].pc = "done" =>
        \A team_id \in TouchedTeams(run[r].tournament_id) :
            /\ \E m \in DOMAIN memberships :
                  /\ memberships[m].league_id = teams[team_id].league_id
                  /\ memberships[m].user_id = teams[team_id].user_id
            /\ \A m \in DOMAIN memberships :
                  (/\ memberships[m].league_id = teams[team_id].league_id
                   /\ memberships[m].user_id = teams[team_id].user_id)
                      => memberships[m].total_points = teams[team_id].total_points

\* C6 witness: a run has returned; user 1's teams in leagues 1 and 2 have
\* different non-zero totals, each mirrored on the membership of its league.
C6_Witness ==
    /\ run[1].pc = "done"
    /\ teams[1].total_points > 0 /\ teams[3].total_points > 0
    /\ teams[1].total_points # teams[3].total_points
    /\ memberships[1].total_points = teams[1].total_points
    /\ memberships[4].total_points = teams[3].total_points

\* The rows a single uninterrupted settlement of tournament t makes of the
\* rows base, under the results as they are: lineups, teams, membership totals.
SettledLineups(base, t) ==
    [id \in DOMAIN base.lineups |->
        IF base.lineups[id].tournament_id = t
        THEN calculate_lineup_score(
                 FantasyScoring(leagues[base.teams[base.lineups[id].team_id].league_id]),
                 base.lineups[id], results)
        ELSE base.lineups[id]]

SettledTeams(base, t) ==
    [team_id \in DOMAIN base.teams |->
        IF \E id \in DOMAIN base.lineups :
              base.lineups[id].tournament_id = t /\ base.lineups[id].team_id = team_id
        THEN [base.teams[team_id] EXCEPT
                 !.total_points = SumTotalPoints(SettledLineups(base, t),
                                                 TeamLineups(base.lineups, team_id))]
        ELSE base.teams[team_id]]

SettledMembershipTotal(base, t, m) ==
    LET mine == {team_id \in TouchedTeams(t) :
                    /\ base.teams[team_id].league_id = base.memberships[m].league_id
                    /\ base.teams[team_id].user_id = base.memberships[m].user_id}
    IN  IF mine = {} THEN base.memberships[m].total_points
        ELSE SettledTeams(base, t)[CHOOSE team_id \in mine : TRUE].total_points

\* the database is what one uninterrupted settlement of t makes of base; the
\* positions of a touched league are a ranking by descending total (members
\* of equal total in either order), those of the other leagues are base's
IsSettlementOf(base, t) ==
    /\ lineups = SettledLineups(base, t)
    /\ teams = SettledTeams(base, t)
    /\ \A m \in DOMAIN memberships :
          /\ memberships[m].total_points = SettledMembershipTotal(base, t, m)
          /\ memberships[m].league_id = base.memberships[m].league_id
          /\ memberships[m].user_id = base.memberships[m].user_id
          /\ (\A team_id \in TouchedTeams(t) :
                 teams[team_id].league_id # memberships[m].league_id)
                => memberships[m].position = base.memberships[m].position
    /\ \A team_id \in TouchedTeams(t) : Ranked(teams[team_id].league_id)

\* C7: when a settlement run of tournament t was aborted at some point and a
\* later full run of t returns, with the results unchanged in between, the
\* lineup points, team totals, membership totals and positions are those of
\* one uninterrupted run of t from the rows the aborted run started on.
C7_RetryAfterAbortSettles ==
    \A r \in Runs :
        (run[r].pc = "done" /\ hist.aborted[run[r].tournament_id].on) =>
            IsSettlementOf(hist.aborted[run[r].tournament_id].base,
                           run[r].tournament_id)

\* C7 witness: the aborted run had committed part of its work (the retry
\* started on other rows than the aborted run did), the retry changed the
\* rows again, and it has returned.
C7_Witness ==
    /\ run[1].pc = "done"
    /\ hist.aborted[run[1].tournament_id].on
    /\ hist.base[1] # hist.aborted[run[1].tournament_id].base
    /\ Snapshot # hist.base[1]

\* C9: a slot whose player has no TournamentResult for the lineup's
\* tournament is scored 0.0, and a lineup whose three players all lack results
\* has three slot points of 0.0 and total_points 0.0.
C9_MissingResultScoresZero ==
    \A r \in Runs : \A id \in ScoredBy(r) :
        LET row == ViewLineups(r)[id]
            Missing(i) == ~results[<< row.tournament_id, row.player_ids[i] >>].present
        IN  /\ \A i \in 1..3 : Missing(i) => row.player_points[i] = 0
            /\ (\A i \in 1..3 : Missing(i)) =>
                   row.player_points = << 0, 0, 0 >> /\ row.total_points = 0

\* C9 witness: the run of tournament 2 has scored lineup 4, one player with a
\* result and points and two without, and lineup 5, no player with a result.
C9_Witness ==
    /\ run[1].tournament_id = 2
    /\ {4, 5} \subseteq ScoredBy(1)
    /\ results[<< 2, 1 >>].present
    /\ \A p \in {2, 3, 4} : ~results[<< 2, p >>].present
    /\ ViewLineups(1)[4].player_points[1] > 0
    /\ ViewLineups(1)[4].total_points = ViewLineups(1)[4].player_points[1]
    /\ ViewLineups(1)[5].total_points = 0

\* C10: calculate_lineup_score overwrites: whatever points the lineup held
\* before, after the call its slot points and total are those that scoring a
\* lineup with the same players, odds and league on fresh (zero) points gives
\* under the current results.
C10_LineupScoreOverwrites ==
    \A r \in Runs : \A id \in ScoredBy(r) :
        LET row == ViewLineups(r)[id]
            fresh == NewLineup(row.team_id, row.tournament_id, row.player_ids,
                               row.player_odds, row.is_locked)
            scorer == FantasyScoring(leagues[teams[row.team_id].league_id])
        IN  row = calculate_lineup_score(scorer, fresh, results)

\* C10 witness: a lineup that held points of an earlier settlement has been
\* scored again after a result changed, and now holds other points.
C10_Witness ==
    \E id \in ScoredBy(1) :
        /\ hist.base[1].lineups[id].total_points > 0
        /\ ViewLineups(1)[id].total_points > 0
        /\ ViewLineups(1)[id].total_points # hist.base[1].lineups[id].total_points

\* the lineups that reference tournament t
LineupsOf(t) == {id \in DOMAIN lineups : lineups[id].tournament_id = t}

\* C13: update_weekly_lineup_scores(t) returns exactly one entry for every
\* lineup of tournament t and no other entry; each entry carries the lineup's
\* team, the team's user, and the total_points the lineup holds after the run.
C13_SummaryHasOneEntryPerLineup ==
    \A r \in Runs : run[r].pc = "done" =>
        LET u == run[r].updated_lineups
            ids == LineupsOf(run[r].tournament_id)
        IN  /\ Len(u) = Cardinality(ids)
            /\ \A id \in ids : \E i \in DOMAIN u : u[i].lineup_id = id
            /\ \A i \in DOMAIN u :
                  /\ u[i].lineup_id \in ids
                  /\ u[i].team_id = lineups[u[i].lineup_id].team_id
                  /\ u[i].user_id = teams[u[i].team_id].user_id
                  /\ u[i].total_points = lineups[u[i].lineup_id].total_points

\* C13 witness: a run of tournament 1 is about to return three entries whose
\* totals are not those the lineups had before the run.
C13_Witness ==
    /\ run[1].pc = "done"
    /\ run[1].tournament_id = 1
    /\ Len(run[1].updated_lineups) = 3
    /\ \E i \in 1..3 :
          /\ run[1].updated_lineups[i].total_points > 0
          /\ hist.base[1].lineups[run[1].updated_lineups[i].lineup_id].total_points > 0
          /\ run[1].updated_lineups[i].total_points
                 # hist.base[1].lineups[run[1].updated_lineups[i].lineup_id].total_points

\* the teams with a lineup in the run's list of lineups
RunTeams(r) == {ViewLineups(r)[run[r].lineups[i]].team_id : i \in DOMAIN run[r].lineups}

\* C16: within one run, when a team's season total is being recomputed every
\* lineup of the tournament has been scored, and when a league's standings are
\* being ranked the season total of every touched team has been recomputed.
C16_ScoreThenTotalsThenStandings ==
    \A r \in Runs :
        /\ run[r].pc \in {"totals", "totals_write", "standings", "rank_write"} =>
              {run[r].updated_lineups[i].lineup_id : i \in DOMAIN run[r].updated_lineups}
                  = LineupsOf(run[r].tournament_id)
        /\ run[r].pc \in {"standings", "rank_write"} =>
              run[r].teams_updated = RunTeams(r)

\* C16 witness: the standings of the second league of tournament 1 are being
\* ranked, after three lineups were scored and three teams totalled.
C16_Witness ==
    /\ run[1].pc = "rank_write"
    /\ run[1].tournament_id = 1
    /\ Len(run[1].updated_lineups) = 3
    /\ run[1].teams_updated = {1, 2, 3}
    /\ run[1].leagues_updated = {1}

\* C17: when update_weekly_lineup_scores(t) returns, every lineup of
\* tournament t, locked or not, holds the slot points and the total that
\* calculate_lineup_score gives for the current results under the settings of
\* the league of the lineup's team.
C17_EveryLineupRescored ==
    \A r \in Runs : run[r].pc = "done" =>
        \A id \in LineupsOf(run[r].tournament_id) :
            LET scorer == FantasyScoring(leagues[teams[lineups[id].team_id].league_id])
                fresh == calculate_lineup_score(scorer, lineups[id], results)
            IN  /\ lineups[id].player_points = fresh.player_points
                /\ lineups[id].total_points = fresh.total_points

\* C17 witness: the run of tournament 1 is done; the locked lineup 1 and the
\* unlocked lineup 2 both hold points, and the run changed both.
C17_Witness ==
    /\ run[1].pc = "done"
    /\ run[1].tournament_id = 1
    /\ lineups[1].is_locked /\ ~lineups[2].is_locked
    /\ lineups[1].total_points > 0 /\ lineups[2].total_points > 0
    /\ lineups[1] # hist.base[1].lineups[1]
    /\ lineups[2] # hist.base[1].lineups[2]

\* row b is row a but for the fields in F
SameBut(a, b, F) == \A f \in (DOMAIN a) \ F : a[f] = b[f]

\* the leagues with a team in the run's list of lineups
RunLeagues(r) == {ViewTeams(r)[team_id].league_id : team_id \in RunTeams(r)}

\* C18: a step of a settlement run writes only its own kind of field.  The
\* scoring step changes only the slot points and total_points of the lineup it
\* scores; the season total step changes only total_points of teams and
\* memberships; the standings step changes only membership positions.  No step
\* changes a lineup of another tournament, or a team or membership of a league
\* without a lineup in the settled tournament.
C18_OneWriterPerField ==
    [][\A r \in Runs : (run[r].pc # "idle" /\ run'[r].pc # "idle") =>
          LET pc == run[r].pc
              L == ViewLineups(r)
              T == ViewTeams(r)
              M == ViewMemberships(r)
          IN  /\ pc = "score" =>
                    /\ \A id \in DOMAIN L :
                          IF id = run[r].lineups[run[r].idx]
                          THEN SameBut(L[id], ViewLineups(r)'[id],
                                       {"player_points", "total_points"})
                          ELSE ViewLineups(r)'[id] = L[id]
                    /\ ViewTeams(r)' = T /\ ViewMemberships(r)' = M
              /\ pc \in {"totals", "totals_write"} =>
                    /\ ViewLineups(r)' = L
                    /\ \A id \in DOMAIN T : SameBut(T[id], ViewTeams(r)'[id], {"total_points"})
                    /\ \A m \in DOMAIN M :
                          SameBut(M[m], ViewMemberships(r)'[m], {"total_points"})
              /\ pc \in {"standings", "rank_write"} =>
                    /\ ViewLineups(r)' = L /\ ViewTeams(r)' = T
                    /\ \A m \in DOMAIN M :
                          SameBut(M[m], ViewMemberships(r)'[m], {"position"})
              /\ pc \in {"commit", "done"} =>
                    /\ ViewLineups(r)' = L /\ ViewTeams(r)' = T
                    /\ ViewMemberships(r)' = M
              /\ DOMAIN ViewLineups(r)' = DOMAIN L
              /\ \A id \in DOMAIN L :
                    L[id].tournament_id # run[r].tournament_id
                        => ViewLineups(r)'[id] = L[id]
              /\ \A id \in DOMAIN T :
                    T[id].league_id \notin RunLeagues(r) => ViewTeams(r)'[id] = T[id]
              /\ \A m \in DOMAIN M :
                    M[m].league_id \notin RunLeagues(r)
                        => ViewMemberships(r)'[m] = M[m]
      ]_vars

\* C18 witness: a run of tournament 2, which has no lineup of league 3 or of
\* team 2, is done: lineups, totals and positions of its leagues changed, the
\* lineups of tournament 1 and the rows of league 3 and team 2 are as before.
C18_Witness ==
    /\ run[1].pc = "done"
    /\ run[1].tournament_id = 2
    /\ lineups[4] # hist.base[1].lineups[4]
    /\ teams[1] # hist.base[1].teams[1]
    /\ memberships[1].position # hist.base[1].memberships[1].position
    /\ \A id \in {1, 2, 3} : lineups[id] = hist.base[1].lineups[id]
    /\ teams[2] = hist.base[1].teams[2] /\ teams[4] = hist.base[1].teams[4]
    /\ memberships[5] = hist.base[1].memberships[5]

\* run r has not reached its first commit: it is scoring, totalling, or in
\* the standings loop with no league ranked yet
BeforeFirstCommit(r) ==
    \/ run[r].pc \in {"score", "totals", "totals_write"}
    \/ run[r].pc \in {"standings", "rank_write"} /\ run[r].leagues_updated = {}

\* run r is ranking a later league: one league at least has been ranked
RankingLaterLeague(r) ==
    run[r].pc \in {"standings", "rank_write"} /\ run[r].leagues_updated # {}

\* the committed rows hold the lineup points and the totals of the whole run
\* r, and the positions of the leagues it has ranked
RunTotalsCommitted(r) ==
    LET base == hist.base[r]
        t == run[r].tournament_id
    IN  /\ lineups = SettledLineups(base, t)
        /\ teams = SettledTeams(base, t)
        /\ \A m \in DOMAIN memberships :
              memberships[m].total_points = SettledMembershipTotal(base, t, m)
        /\ \A league_id \in run[r].leagues_updated : Ranked(league_id)

\* C28: a settlement run commits nothing before it ranks its first league:
\* the committed rows change only in update_league_standings or in the last
\* commit; if the run fails during scoring or totalling, the lineups, teams
\* and memberships are as they were when it started; if it fails while
\* ranking a later league, the lineup points and the totals of the whole run
\* and the positions of the leagues already ranked stay committed.
C28_FirstCommitInStandings ==
    [][\A r \in Runs :
          /\ (lineups' # lineups \/ teams' # teams \/ memberships' # memberships)
                => \E o \in Runs : run[o].pc \in {"rank_write", "commit"}
          /\ BeforeFirstCommit(r) =>
                /\ Snapshot = hist.base[r]
                /\ run'[r].pc = "idle" =>
                      /\ lineups' = hist.base[r].lineups
                      /\ teams' = hist.base[r].teams
                      /\ memberships' = hist.base[r].memberships
          /\ RankingLaterLeague(r) =>
                /\ RunTotalsCommitted(r)
                /\ run'[r].pc = "idle" =>
                      /\ lineups' = lineups
                      /\ teams' = teams
                      /\ memberships' = memberships
      ]_vars

\* C28 witness: the run of tournament 1 was aborted after it had ranked
\* league 1 and before it ranked league 2: the lineup points and the totals
\* of its three lineups are committed, league 1 has positions and league 2
\* has none.
C28_Witness ==
    /\ run[1].pc = "idle"
    /\ hist.aborted[1].on
    /\ lineups # hist.aborted[1].base.lineups
    /\ lineups = SettledLineups(hist.aborted[1].base, 1)
    /\ teams = SettledTeams(hist.aborted[1].base, 1)
    /\ teams[3].total_points > 0
    /\ memberships[4].total_points = teams[3].total_points
    /\ memberships[1].position # None
    /\ memberships[4].position = None

\* C23: after calculate_lineup_score, player_i_points is the total_score of
\* calculate_player_score for the result of the player of slot i and the odds
\* of slot i (0.0 without a result), for i = 1, 2, 3, and total_points is the
\* sum of the three.
C23_SlotPointsInOrder ==
    \A r \in Runs : \A id \in ScoredBy(r) :
        LET row == ViewLineups(r)[id]
            scorer == FantasyScoring(leagues[teams[row.team_id].league_id])
            Expected(i) ==
                LET result == results[<< row.tournament_id, row.player_ids[i] >>]
                IN  IF result.present
                    THEN calculate_player_score(scorer, result.position,
                             result.made_cut, row.player_odds[i], 156).total_score
                    ELSE 0
        IN  /\ \A i \in 1..3 : row.player_points[i] = Expected(i)
            /\ row.total_points = Expected(1) + Expected(2) + Expected(3)

\* C23 witness: lineup 1 is scored with three different slot points, the
\* first two of players who made the cut at different odds.
C23_Witness ==
    /\ 1 \in ScoredBy(1)
    /\ ViewLineups(1)[1].player_points[1] > ViewLineups(1)[1].player_points[2]
    /\ ViewLineups(1)[1].player_points[2] > 0
    /\ ViewLineups(1)[1].player_points[3] = 0
    /\ ViewLineups(1)[1].total_points =
           ViewLineups(1)[1].player_points[1] + ViewLineups(1)[1].player_points[2]

(***************************************************************************)
(* Direct calls of the scorer: calculate_player_score on drawn arguments   *)
(***************************************************************************)
PositionInputs == { None, -1, 0, 1, 2, 5, 6, 10, 11, 45, 156, 157 }
OddsInputs == { None, -100, 0, 50, 100, 150, 200, 300, 800, 2500, 8000, 200000 }
FieldSizeInputs == { 156, 4, 0 }

\* league rows: no scoring settings, FantasyLeagueCreate's defaults, all
\* settings zero, customised settings
LeagueInputs ==
    { [win_points |-> None, top_5_bonus |-> None, top_10_bonus |-> None,
       made_cut_bonus |-> None, odds_multiplier |-> None],
      [win_points |-> 10000, top_5_bonus |-> 5000, top_10_bonus |-> 2500,
       made_cut_bonus |-> 1000, odds_multiplier |-> 100],
      [win_points |-> 0, top_5_bonus |-> 0, top_10_bonus |-> 0,
       made_cut_bonus |-> 0, odds_multiplier |-> 0],
      [win_points |-> 15000, top_5_bonus |-> 7500, top_10_bonus |-> 4000,
       made_cut_bonus |-> 1500, odds_multiplier |-> 50] }

\* position_score * odds_multiplier falls exactly between two hundredths.
\* There the source rounds the binary float, whose direction the decimal value
\* does not decide; such arguments are not drawn.
RoundingTie(league, position, odds, field_size) ==
    /\ ~PositionRatioRaises(position, field_size)
    /\ (calculate_position_score(position, field_size)
       * calculate_odds_multiplier(FantasyScoring(league), odds)) % 1000 = 500

InitScore ==
    /\ InitDb
    /\ inp \in [ position : PositionInputs, made_cut : BOOLEAN, odds : OddsInputs,
                 field_size : FieldSizeInputs, league : LeagueInputs ]
    /\ ~RoundingTie(inp.league, inp.position, inp.odds, inp.field_size)
    /\ out = NoCall

\* out.fn is "raised" when the call ends in an exception
CallPlayerScore ==
    /\ out = NoCall
    /\ out' = IF PlayerScoreRaises(inp.position, inp.made_cut, inp.field_size)
              THEN [ fn |-> "raised", error |-> "ZeroDivisionError" ]
              ELSE [ fn |-> "calculate_player_score",
                     ret |-> calculate_player_score(FantasyScoring(inp.league),
                                 inp.position, inp.made_cut, inp.odds, inp.field_size) ]
    /\ UNCHANGED << inp, run, hist, budget >>
    /\ Unchanged_db

NextScore == CallPlayerScore

SpecScore == InitScore /\ [][NextScore]_vars

\* C8: for every position, odds value, field size and league configuration,
\* calculate_player_score with made_cut false returns total_score 0.0,
\* position_score 0.0, achievement_bonus 0.0, base_score 0.0 and
\* odds_multiplier 1.0.
C8_MissedCutScoresZero ==
    (out.fn = "calculate_player_score" /\ ~inp.made_cut) =>
        /\ out.ret.total_score = 0
        /\ out.ret.position_score = 0
        /\ out.ret.achievement_bonus = 0
        /\ out.ret.base_score = 0
        /\ out.ret.odds_multiplier = 1000

\* C8 witness: a winner at long odds in a league with bonuses, but with
\* made_cut false, has been scored.
C8_Witness ==
    /\ out.fn = "calculate_player_score"
    /\ ~inp.made_cut
    /\ inp.position = 1
    /\ inp.odds = 8000
    /\ inp.league.win_points = 10000
    /\ out.ret.total_score = 0

\* a fantasy_leagues row whose scoring columns are NULL
UnsetLeague ==
    [win_points |-> None, top_5_bonus |-> None, top_10_bonus |-> None,
     made_cut_bonus |-> None, odds_multiplier |-> None]

\* the documented defaults: the column defaults of FantasyLeague, which are
\* FantasyLeagueCreate's defaults too, as scorer settings
ColumnDefaults ==
    [win_bonus |-> 10000, top_5_bonus |-> 5000, top_10_bonus |-> 2500,
     made_cut_bonus |-> 1000, odds_weight |-> 100]

\* C11: for a league whose scoring fields are unset, calculate_player_score
\* returns (without failing) the breakdown that win bonus 100, top-5 bonus 50,
\* top-10 bonus 25, made-cut bonus 10 and odds weight 1.0 give.
C11_UnsetLeagueUsesDocumentedDefaults ==
    (out.fn = "calculate_player_score" /\ inp.league = UnsetLeague) =>
        LET documented == calculate_player_score(ColumnDefaults, inp.position,
                              inp.made_cut, inp.odds, inp.field_size)
        IN  /\ out.ret.position_score = documented.position_score
            /\ out.ret.odds_multiplier = documented.odds_multiplier
            /\ out.ret.achievement_bonus = documented.achievement_bonus

\* C12: in a league whose odds weight is 0 the odds multiplier of a made-cut
\* player is 1.0 for every odds value, so that the total is position score
\* plus bonus; and a bonus the league sets explicitly, 0 included, is the
\* bonus the scorer pays: a made-cut winner's achievement bonus is the sum of
\* the league's four values.
C12_ConfiguredValuesAreUsed ==
    (out.fn = "calculate_player_score" /\ inp.made_cut) =>
        /\ inp.league.odds_multiplier = 0 =>
              /\ out.ret.odds_multiplier = 1000
              /\ out.ret.total_score =
                     out.ret.position_score + out.ret.achievement_bonus
        /\ (inp.league # UnsetLeague /\ inp.position = 1) =>
              out.ret.achievement_bonus =
                  inp.league.win_points + inp.league.top_5_bonus
                  + inp.league.top_10_bonus + inp.league.made_cut_bonus

\* C19: for a player who made the cut the achievement bonus is the sum of
\* the win bonus iff the position is 1, the top-5 bonus iff it is at most 5,
\* the top-10 bonus iff it is at most 10, and the made-cut bonus always.
C19_BonusesStack ==
    (out.fn = "calculate_player_score" /\ inp.made_cut) =>
        LET self == FantasyScoring(inp.league)
            p == inp.position
        IN  out.ret.achievement_bonus =
                (IF p # None /\ p = 1 THEN self.win_bonus ELSE 0)
                + (IF p # None /\ p <= 5 THEN self.top_5_bonus ELSE 0)
                + (IF p # None /\ p <= 10 THEN self.top_10_bonus ELSE 0)
                + self.made_cut_bonus

\* C20: for made_cut true and a null position calculate_player_score gives
\* position_score 0 and the made-cut bonus: achievement_bonus and total_score
\* are the scorer's made-cut bonus.
C20_NullPositionKeepsMadeCutBonus ==
    (out.fn = "calculate_player_score" /\ inp.made_cut /\ inp.position = None) =>
        LET self == FantasyScoring(inp.league)
        IN  /\ out.ret.position_score = 0
            /\ out.ret.achievement_bonus = self.made_cut_bonus
            /\ out.ret.total_score = self.made_cut_bonus

\* the call returned the breakdown of a player who made the cut
ScoredMadeCut == out.fn = "calculate_player_score" /\ inp.made_cut

\* C21: for a player who made the cut the position is clamped to
\* [1, field_size]: a position beyond field_size scores as field_size does, and
\* a position of 0 or below scores as position 1 does.
C21_PositionClampedBothWays ==
    (ScoredMadeCut /\ inp.position # None /\ inp.field_size > 0) =>
        /\ inp.position > inp.field_size =>
              out.ret.position_score = ScaledScore(inp.field_size, inp.field_size)
        /\ inp.position <= 0 =>
              out.ret.position_score = ScaledScore(1, inp.field_size)

\* C21 as amended: a position beyond field_size scores as field_size does
\* (last place); a position of 0 or below has position score 0.0.
C21_PositionClampedAbove ==
    (ScoredMadeCut /\ inp.position # None /\ inp.field_size > 0) =>
        /\ inp.position > inp.field_size =>
              out.ret.position_score = ScaledScore(inp.field_size, inp.field_size)
        /\ inp.position <= 0 => out.ret.position_score = 0

\* C21 witness: position 157 in a field of 156 was scored as last place.
C21_Witness ==
    /\ ScoredMadeCut
    /\ inp.position = 157 /\ inp.field_size = 156
    /\ out.ret.position_score = 714

\* C22: calculate_player_score never raises and returns five defined
\* numbers, for every position, odds value and field size passed to it.
C22_NeverRaises ==
    out.fn # "none" =>
        /\ out.fn = "calculate_player_score"
        /\ \A f \in {"position_score", "odds_multiplier", "achievement_bonus",
                      "base_score", "total_score"} :
              out.ret[f] \in Int /\ out.ret[f] # None

C25_PositionScoreMonotone ==
    (ScoredMadeCut /\ inp.position # None /\ inp.position \in 1..inp.field_size) =>
        /\ \A better \in 1..inp.position :
              calculate_position_score(better, inp.field_size) >= out.ret.position_score
        /\ \A worse \in inp.position..inp.field_size :
              calculate_position_score(worse, inp.field_size) <= out.ret.position_score
        /\ inp.position = 1 => out.ret.position_score = 20000
        /\ out.ret.position_score >= 500 /\ out.ret.position_score <= 20000

\* C25 witness: position 45 of 156 was scored, below the winner and above
\* last place.
C25_Witness ==
    /\ ScoredMadeCut
    /\ inp.position = 45 /\ inp.field_size = 156
    /\ out.ret.position_score < 20000
    /\ out.ret.position_score > calculate_position_score(156, 156)

\* C26: the odds multiplier is 1.0 for null odds and odds of at most 1.0;
\* above 1.0, longer odds never have the smaller multiplier; and the
\* multiplier lies in [0.8, 3.5] (the odds weights of the leagues are in
\* [0, 1]; with weight 1.0 it is the clamped value itself).
C26_OddsMultiplierMonotoneAndBounded ==
    ScoredMadeCut =>
        /\ (inp.odds = None \/ inp.odds <= 100) => out.ret.odds_multiplier = 1000
        /\ (inp.odds # None /\ inp.odds > 100) =>
              \A shorter \in {o \in OddsInputs : o # None /\ o > 100 /\ o <= inp.odds} :
                  calculate_odds_multiplier(FantasyScoring(inp.league), shorter)
                      <= out.ret.odds_multiplier
        /\ out.ret.odds_multiplier >= 800
        /\ out.ret.odds_multiplier <= 3500

\* C26 witness: with odds weight 1.0, odds 1.5 were scored at the lower
\* clamp 0.8.
C26_Witness ==
    /\ ScoredMadeCut
    /\ inp.odds = 150
    /\ inp.league.odds_multiplier = 100
    /\ out.ret.odds_multiplier = 800

(***************************************************************************)
(* Two settlement runs at once, each in its own session                    *)
(***************************************************************************)
NextConc ==
    \E r \in Runs :
        \/ \E t \in Tournaments : StartSettlement(r, t)
        \/ RunStep(r)

SpecConc == Init /\ [][NextConc]_vars

\* C2: when two settlement runs for different tournaments that share a team
\* have both returned, however their reads and writes interleaved, the shared
\* team's season total is the sum of total_points over all of its lineups.
C2_ConcurrentSettlementsAgree ==
    (/\ run[1].pc = "done"
     /\ run[2].pc = "done"
     /\ run[1].tournament_id # run[2].tournament_id) =>
        \A team_id \in TouchedTeams(1) \cap TouchedTeams(2) :
            teams[team_id].total_points =
                SumTotalPoints(lineups, TeamLineups(lineups, team_id))

(***************************************************************************)
(* set_weekly_lineup (api/v1/endpoints/fantasy.py): the lineup submissions *)
(* of the users, up to two requests at once, and the start of tournaments  *)
(***************************************************************************)
\* how many lineup submissions are made
MaxSubmissions == 3

\* the arguments the requests are drawn from: tournament 3 and player 9 do
\* not exist; the lists hold a repeated player, too few players, too few odds
SubmitUsers == {1, 2}
SubmitTeams == {1, 2}
SubmitTournaments == {1, 2, 3}
PlayerIdLists == { << 1, 2, 3 >>, << 4, 2, 1 >>, << 1, 1, 2 >>, << 1, 2 >>, << 1, 2, 9 >> }
OddsLists == { << 800, 300, 2500 >>, << 300, 300 >> }

\* the validators of WeeklyLineupCreate
WeeklyLineupCreate(player_ids, player_odds) ==
    /\ Len(player_ids) = 3
    /\ Cardinality({player_ids[i] : i \in DOMAIN player_ids}) = 3
    /\ Len(player_odds) = 3

\* the rows of weekly_lineups for (team_id, tournament_id)
ExistingLineups(team_id, tournament_id) ==
    {id \in DOMAIN lineups : /\ lineups[id].team_id = team_id
                             /\ lineups[id].tournament_id = tournament_id}

\* a faulty variant of UniqueTeamTournament: the table has no such constraint
no_unique_constraint(team_id, tournament_id) == TRUE

\* UniqueConstraint('team_id', 'tournament_id'): a new row is accepted
UniqueTeamTournament(team_id, tournament_id) ==
    ExistingLineups(team_id, tournament_id) = {}

\* a faulty variant of ResponseBeforeWrite: the lock of the existing lineup is not
\* looked at
response_ignoring_lock(user, team_id, tournament_id, player_ids, player_odds) ==
    IF ~WeeklyLineupCreate(player_ids, player_odds)
    THEN Response(422, "validation error")
    ELSE IF ~(team_id \in DOMAIN teams /\ teams[team_id].user_id = user)
    THEN Response(404, "Team not found or not owned by you")
    ELSE IF tournament_id \notin DOMAIN tournaments
    THEN Response(404, "Tournament not found")
    ELSE IF Cardinality({p \in Players : \E i \in 1..3 : player_ids[i] = p}) # 3
    THEN Response(400, "All selected players must exist")
    ELSE Response(0, "")

\* the response of set_weekly_lineup up to its query of the existing lineup
\* and the check of its lock: status 0 when the request goes on to write
ResponseBeforeWrite(user, team_id, tournament_id, player_ids, player_odds) ==
    IF ~WeeklyLineupCreate(player_ids, player_odds)
    THEN Response(422, "validation error")
    ELSE IF ~(team_id \in DOMAIN teams /\ teams[team_id].user_id = user)
    THEN Response(404, "Team not found or not owned by you")
    ELSE IF tournament_id \notin DOMAIN tournaments
    THEN Response(404, "Tournament not found")
    ELSE IF Cardinality({p \in Players : \E i \in 1..3 : player_ids[i] = p}) # 3
    THEN Response(400, "All selected players must exist")
    ELSE IF \E id \in ExistingLineups(team_id, tournament_id) : lineups[id].is_locked
    THEN Response(400, "Lineup is locked (tournament has started)")
    ELSE Response(0, "")

\* set_weekly_lineup from the validation of the body to the query of the
\* existing lineup and the check of its lock
ReadLineup(q, user, team_id, tournament_id, player_ids, player_odds) ==
    /\ reqs[q].pc = "idle"
    /\ budget.submitted < MaxSubmissions
    /\ LET response == ResponseBeforeWrite(user, team_id, tournament_id,
                                           player_ids, player_odds)
           existing == ExistingLineups(team_id, tournament_id)
       IN  reqs' = [reqs EXCEPT ![q] =
                      IF response.status # 0 THEN response
                      ELSE [ pc |-> "write", status |-> 0,
                             team_id |-> team_id, tournament_id |-> tournament_id,
                             player_ids |-> player_ids, player_odds |-> player_odds,
                             existing |-> IF existing = {} THEN 0
                                          ELSE CHOOSE id \in existing : TRUE ]]
    /\ budget' = [budget EXCEPT !.submitted = @ + 1]
    /\ UNCHANGED << leagues, teams, memberships, lineups, results, tournaments,
                    run, hist, inp, out >>

\* the update of the existing lineup, or the insert of a new one, and the
\* commit; an insert the unique constraint rejects fails the request
WriteLineup(q) ==
    /\ reqs[q].pc = "write"
    /\ LET rq == reqs[q]
           new_id == Cardinality(DOMAIN lineups) + 1
       IN  IF rq.existing # 0
           THEN /\ lineups' = [lineups EXCEPT
                                 ![rq.existing].player_ids = rq.player_ids,
                                 ![rq.existing].player_odds = rq.player_odds]
                /\ reqs' = [reqs EXCEPT ![q] = Response(200, "")]
           ELSE IF UniqueTeamTournament(rq.team_id, rq.tournament_id)
           THEN /\ lineups' = [id \in DOMAIN lineups \cup {new_id} |->
                                 IF id = new_id
                                 THEN NewLineup(rq.team_id, rq.tournament_id,
                                                rq.player_ids, rq.player_odds, FALSE)
                                 ELSE lineups[id]]
                /\ reqs' = [reqs EXCEPT ![q] = Response(200, "")]
           ELSE /\ lineups' = lineups
                /\ reqs' = [reqs EXCEPT ![q] = Response(500, "IntegrityError")]
    /\ UNCHANGED << leagues, teams, memberships, results, tournaments,
                    run, hist, budget, inp, out >>

\* the start date of tournament t passes
StartTournament(t) ==
    /\ ~tournaments[t].started
    /\ tournaments' = [tournaments EXCEPT ![t].started = TRUE]
    /\ hist' = [hist EXCEPT !.at_start[t] = lineups]
    /\ UNCHANGED << leagues, teams, memberships, lineups, results, reqs,
                    run, budget, inp, out >>

\* before the tournaments: no result is stored, no tournament has started
InitLineup ==
    /\ leagues = InitLeagues
    /\ teams = InitTeams
    /\ memberships = InitMemberships
    /\ lineups = InitLineups
    /\ results = [k \in Tournaments \X Players |-> NoResult]
    /\ tournaments = [t \in Tournaments |-> [started |-> FALSE]]
    /\ reqs = [q \in Requests |-> IdleRequest]
    /\ run = [r \in Runs |-> IdleRun]
    /\ hist = InitHist
    /\ budget = InitBudget
    /\ inp = NoCall
    /\ out = NoCall

NextLineup ==
    \/ \E t \in Tournaments : StartTournament(t)
    \/ \E q \in Requests, user \in SubmitUsers, team_id \in SubmitTeams,
          tournament_id \in SubmitTournaments, player_ids \in PlayerIdLists,
          player_odds \in OddsLists :
            ReadLineup(q, user, team_id, tournament_id, player_ids, player_odds)
    \/ \E q \in Requests : WriteLineup(q)

SpecLineup == InitLineup /\ [][NextLineup]_vars

\* C14: once a tournament has started, the player ids and the odds of each
\* of its lineups stay what they were at the start, whatever lineups are
\* submitted afterwards.
C14_LineupFrozenAtStart ==
    \A t \in Tournaments : tournaments[t].started =>
        \A id \in DOMAIN hist.at_start[t] :
            hist.at_start[t][id].tournament_id = t =>
                /\ lineups[id].player_ids = hist.at_start[t][id].player_ids
                /\ lineups[id].player_odds = hist.at_start[t][id].player_odds

\* C15: after any sequence of set_weekly_lineup calls no two lineups have
\* the same team and tournament, and every lineup holds three pairwise
\* distinct player ids.
C15_OneLineupPerTeamAndTournament ==
    /\ \A a, b \in DOMAIN lineups :
          (/\ lineups[a].team_id = lineups[b].team_id
           /\ lineups[a].tournament_id = lineups[b].tournament_id) => a = b
    /\ \A id \in DOMAIN lineups :
          /\ Len(lineups[id].player_ids) = 3
          /\ Cardinality({lineups[id].player_ids[i] : i \in 1..3}) = 3

\* C15 witness: team 2's lineup for tournament 2 was created, a second
\* request to create it was turned down, and a later submission changed it.
C15_Witness ==
    /\ 6 \in DOMAIN lineups
    /\ lineups[6].team_id = 2 /\ lineups[6].tournament_id = 2
    /\ \E q \in Requests : reqs[q].pc = "idle" /\ reqs[q].status = 500
    /\ \E q \in Requests : reqs[q].pc = "write" /\ reqs[q].existing = 6

\* C27: a submission for a (team, tournament) whose lineup is locked is
\* rejected with an error, never accepted for writing, and no step changes a
\* locked lineup's player ids, odds, points or locked flag.
C27_LockedLineupRejected ==
    [][/\ \A q \in Requests :
             (reqs[q].pc = "idle" /\ reqs'[q].pc = "write") =>
                 \A id \in ExistingLineups(reqs'[q].team_id, reqs'[q].tournament_id) :
                     ~lineups[id].is_locked
       /\ \A q \in Requests :
             (reqs[q].pc = "idle" /\ reqs'[q] # reqs[q] /\ reqs'[q].pc = "idle") =>
                 reqs'[q].status \in {400, 404, 422} /\ lineups' = lineups
       /\ \A id \in DOMAIN lineups :
             lineups[id].is_locked => lineups'[id] = lineups[id]
      ]_vars

\* C27 witness: a request was answered 400, lineup is locked, and the locked
\* lineups are as they were.
C27_Witness ==
    /\ \E q \in Requests :
          /\ reqs[q].status = 400
          /\ reqs[q].detail = "Lineup is locked (tournament has started)"
    /\ \A id \in {1, 3, 4, 5} : lineups[id] = InitLineups[id]

\* ---------------------------------------------------------------------
\* Joining a league and registering a team: join_fantasy_league and
\* register_fantasy_team, each a read of the committed rows followed by an
\* insert and a commit, so that two requests can interleave
\* ---------------------------------------------------------------------

\* the calls of join_fantasy_league and register_fantasy_team in a behaviour
MaxLeagueCalls == 3

\* the users who call, and the league ids they name (9 is no league)
LeagueUsers == {1, 2, 3, 4}
LeagueIds == {1, 2, 3, 9}

\* the memberships of a league, and the membership of a user in it
MembersOf(league_id) ==
    {m \in DOMAIN memberships : memberships[m].league_id = league_id}

MembershipOf(league_id, user) ==
    {m \in MembersOf(league_id) : memberships[m].user_id = user}

\* the teams of a user in a league
TeamsOf(league_id, user) ==
    {t \in DOMAIN teams : teams[t].league_id = league_id /\ teams[t].user_id = user}

\* `if league.max_members:` - a limit of None or 0 is no limit
HasLimit(league) == league.max_members # None /\ league.max_members # 0

\* the response of join_fantasy_league up to its checks: status 0 when the
\* request goes on to insert the membership
JoinResponse(user, league_id) ==
    IF league_id \notin DOMAIN leagues
    THEN Response(404, "Fantasy league not found")
    ELSE IF MembershipOf(league_id, user) # {}
    THEN Response(400, "Already a member of this league")
    ELSE IF /\ HasLimit(leagues[league_id])
            /\ Cardinality(MembersOf(league_id)) >= leagues[league_id].max_members
    THEN Response(400, "League is full")
    ELSE Response(0, "")

\* join_fantasy_league from the query of the league to the check of the limit
JoinRead(q, user, league_id) ==
    /\ reqs[q].pc = "idle"
    /\ budget.league_calls < MaxLeagueCalls
    /\ LET response == JoinResponse(user, league_id)
       IN  reqs' = [reqs EXCEPT ![q] =
                      IF response.status # 0 THEN response
                      ELSE [ pc |-> "join", status |-> 0,
                             user_id |-> user, league_id |-> league_id ]]
    /\ budget' = [budget EXCEPT !.league_calls = @ + 1]
    /\ UNCHANGED << leagues, teams, memberships, lineups, results, tournaments,
                    run, hist, inp, out >>

\* the insert of the membership and the commit; an insert the unique
\* constraint on (league_id, user_id) rejects fails the request
JoinWrite(q) ==
    /\ reqs[q].pc = "join"
    /\ LET rq == reqs[q]
           new_id == Cardinality(DOMAIN memberships) + 1
       IN  IF MembershipOf(rq.league_id, rq.user_id) = {}
           THEN /\ memberships' =
                      [id \in DOMAIN memberships \cup {new_id} |->
                         IF id = new_id
                         THEN [league_id |-> rq.league_id, user_id |-> rq.user_id,
                               total_points |-> 0, position |-> None]
                         ELSE memberships[id]]
                /\ reqs' = [reqs EXCEPT ![q] = Response(200, "Successfully joined league")]
           ELSE /\ memberships' = memberships
                /\ reqs' = [reqs EXCEPT ![q] = Response(500, "IntegrityError")]
    /\ UNCHANGED << leagues, teams, lineups, results, tournaments,
                    run, hist, budget, inp, out >>

\* a faulty variant of RegisterResponse: the membership of the user is not
\* looked up
register_response_no_membership(user, league_id) ==
    IF league_id \notin DOMAIN leagues
    THEN Response(404, "League not found")
    ELSE IF TeamsOf(league_id, user) # {}
    THEN Response(400, "Team already registered for this league")
    ELSE Response(0, "")

\* the response of register_fantasy_team up to its checks: status 0 when
\* the request goes on to insert the team
RegisterResponse(user, league_id) ==
    IF league_id \notin DOMAIN leagues
    THEN Response(404, "League not found")
    ELSE IF MembershipOf(league_id, user) = {}
    THEN Response(400, "Must join league before registering a team")
    ELSE IF TeamsOf(league_id, user) # {}
    THEN Response(400, "Team already registered for this league")
    ELSE Response(0, "")

\* register_fantasy_team from the query of the league to the query of the
\* existing team
RegisterRead(q, user, league_id) ==
    /\ reqs[q].pc = "idle"
    /\ budget.league_calls < MaxLeagueCalls
    /\ LET response == RegisterResponse(user, league_id)
       IN  reqs' = [reqs EXCEPT ![q] =
                      IF response.status # 0 THEN response
                      ELSE [ pc |-> "register", status |-> 0,
                             user_id |-> user, league_id |-> league_id ]]
    /\ budget' = [budget EXCEPT !.league_calls = @ + 1]
    /\ UNCHANGED << leagues, teams, memberships, lineups, results, tournaments,
                    run, hist, inp, out >>

\* the unique constraint _user_league_team_uc of FantasyTeam
UniqueUserLeague(user, league_id) == TeamsOf(league_id, user) = {}

\* the insert of the team and the commit; an insert the unique constraint
\* on (user_id, league_id) rejects fails the request
RegisterWrite(q) ==
    /\ reqs[q].pc = "register"
    /\ LET rq == reqs[q]
           new_id == Cardinality(DOMAIN teams) + 1
       IN  IF UniqueUserLeague(rq.user_id, rq.league_id)
           THEN /\ teams' = [id \in DOMAIN teams \cup {new_id} |->
                               IF id = new_id
                               THEN [user_id |-> rq.user_id, league_id |-> rq.league_id,
                                     total_points |-> 0]
                               ELSE teams[id]]
                /\ reqs' = [reqs EXCEPT ![q] = Response(200, "")]
           ELSE /\ teams' = teams
                /\ reqs' = [reqs EXCEPT ![q] = Response(500, "IntegrityError")]
    /\ UNCHANGED << leagues, memberships, lineups, results, tournaments,
                    run, hist, budget, inp, out >>

NextLeague ==
    \/ \E q \in Requests, user \in LeagueUsers, league_id \in LeagueIds :
          JoinRead(q, user, league_id)
    \/ \E q \in Requests : JoinWrite(q)
    \/ \E q \in Requests, user \in LeagueUsers, league_id \in LeagueIds :
          RegisterRead(q, user, league_id)
    \/ \E q \in Requests : RegisterWrite(q)

SpecLeague == InitLineup /\ [][NextLeague]_vars

\* C29: every FantasyTeam has exactly one LeagueMembership for its (user,
\* league), there is at most one team per (user, league), and a request of
\* register_fantasy_team goes on to insert a team only for a member of the
\* league.
C29_TeamHasOneMembership ==
    /\ \A t \in DOMAIN teams :
          Cardinality({m \in DOMAIN memberships :
                         /\ memberships[m].league_id = teams[t].league_id
                         /\ memberships[m].user_id = teams[t].user_id}) = 1
    /\ \A t1, t2 \in DOMAIN teams :
          (/\ teams[t1].user_id = teams[t2].user_id
           /\ teams[t1].league_id = teams[t2].league_id) => t1 = t2
    /\ \A q \in Requests :
          reqs[q].pc = "register" =>
              \E m \in DOMAIN memberships :
                  /\ memberships[m].league_id = reqs[q].league_id
                  /\ memberships[m].user_id = reqs[q].user_id

\* C29 witness: a user joined a league, a team was registered, and a request
\* of register_fantasy_team was rejected.
C29_Witness ==
    /\ Cardinality(DOMAIN teams) > Cardinality(DOMAIN InitTeams)
    /\ Cardinality(DOMAIN memberships) > Cardinality(DOMAIN InitMemberships)
    /\ \E q \in Requests :
          /\ reqs[q].pc = "idle"
          /\ reqs[q].detail \in {"Must join league before registering a team",
                              "Team already registered for this league"}

\* C30: a league that has max_members set never has more memberships than
\* max_members, however the requests of join_fantasy_league interleave.
C30_MaxMembersNeverExceeded ==
    \A l \in DOMAIN leagues :
        leagues[l].max_members # None =>
            Cardinality({m \in DOMAIN memberships : memberships[m].league_id = l})
                <= leagues[l].max_members

====
